---- MODULE Spec2Model ----
(***************************************************************************)
(* A model of CLSAcquisition.py: the acquisition worker thread             *)
(* (Acquisition.run and the three sequencers snap_acquisition,             *)
(* video_acquisition and z_stack_acquisition), the control thread's abort  *)
(* button, and the camera that fills the circular buffer.                  *)
(*                                                                         *)
(* The worker is a sequential program; pc is its position.  One action is  *)
(* one stretch of its code between two reads of state that another party   *)
(* writes (abort_boolean, written by the control thread; the circular      *)
(* buffer and the running flag, written by the camera).                    *)
(***************************************************************************)
EXTENDS Integers, Sequences, FiniteSets, TLC

\* ------------------------------------------------------------------ bounds
NumChannels == 2       \* length of channel_order_list
MaxTimePoints == 2     \* largest configured num_time_points
MaxIdleGap == 1        \* idle polls a delivering camera lets pass between frames
MaxOverrun == 2        \* idle polls counted beyond the first one over TIMEOUT_LIMIT

\* ------------------------------------------------------- program constants
TIMEOUT_LIMIT == 500   \* "timeout > 500"
SCAN_BUFFER == 10      \* scan_buffer = 10
MAX_LS_FRAMERATE == 40 \* min(..., 40)

VARIABLES
    \* configuration, fixed for the run
    acquisition_settings,       \* AcquisitionSettings (the fields run() reads)
    region_settings_list,       \* [sample][region] -> RegionSettings or 0
    \* state shared with the control thread
    abort_boolean,
    \* the worker
    pc,                         \* position in run() / the sequencers
    num_time_points,            \* loop variable of run(), 0-based
    sample_num, region_num,     \* loop variables of run(), 0-based
    elapsed,                    \* time units since "start = time.time_ns()"
    chan,                       \* position in channel_order_list, 1-based
    cur_frame, timeout,         \* drain-loop locals
    num_target,                 \* num_images (video) / num_frames (z stack)
    z_start, z_end,             \* z_stack_acquisition's locals
    lightsheet_readout_framerate,   \* spim_commands.lightsheet_readout_framerate
    \* the camera and its circular buffer
    cam,
    \* stage, scan range, camera properties, galvo, joystick, status label
    hw,
    \* the datastore "data" of the running sequencer, and the channels for
    \* which the running sequencer call has created a datastore
    data, opened,
    \* the datastores created and not closed (their paths)
    open_sinks,
    \* bookkeeping for the properties
    abortSeen,                  \* the worker has read abort_boolean = True
    lastOps                     \* device/datastore calls of the worker's last step

vars == <<acquisition_settings, region_settings_list, abort_boolean, pc,
          num_time_points, sample_num, region_num, elapsed, chan, cur_frame,
          timeout, num_target, z_start, z_end, lightsheet_readout_framerate,
          cam, hw, data, opened, open_sinks, abortSeen, lastOps>>

\* ----------------------------------------------------------------- helpers
\* Python's round() and np.round(): round half to even, of n / d with d > 0.
RoundDiv(n, d) ==
    LET q == n \div d
        r == n % d
    IN  IF 2 * r < d THEN q
        ELSE IF 2 * r > d THEN q + 1
        ELSE IF q % 2 = 0 THEN q ELSE q + 1

Abs(x) == IF x < 0 THEN -x ELSE x
Min(a, b) == IF a <= b THEN a ELSE b

channel_order_list == [i \in 1..NumChannels |-> 10 * i]
Channels == {channel_order_list[i] : i \in 1..NumChannels}

\* list.index(x): 0-based position of x
IndexOf(list, x) == (CHOOSE i \in 1..Len(list) : list[i] = x) - 1

Op(name, args) == [op |-> name, args |-> args]
OpNames(ops) == {ops[i].op : i \in 1..Len(ops)}

\* position of the first entry of ops named name, 0 if none
FirstOp(ops, name) ==
    IF name \in OpNames(ops)
    THEN CHOOSE i \in 1..Len(ops) :
            /\ ops[i].op = name
            /\ \A j \in 1..(i - 1) : ops[j].op # name
    ELSE 0

NoData == [open |-> FALSE, closes |-> 0, path |-> <<>>, frames |-> <<>>]

\* ----------------------------------------------------------- configuration
\* RegionSettings: the fields the acquisition reads.  The stage position of a
\* region is its cell's, so that every region has a position of its own.
RegionSettings(s, r, k) ==
    [x_position |-> 100 * (s + 1), y_position |-> 100 * (r + 1), z_position |-> 5,
     z_start_position |-> k.z_start_position,
     z_end_position |-> k.z_end_position,
     step_size |-> 10,
     snap_exposure_time |-> 20,
     video_exposure_time |-> k.video_exposure_time,
     video_duration |-> 1,
     snap_boolean |-> k.snap_boolean,
     video_boolean |-> k.video_boolean,
     z_stack_boolean |-> k.z_stack_boolean,
     snap_channel_list |-> k.snap_channel_list,
     video_channel_list |-> k.video_channel_list,
     z_stack_channel_list |-> k.z_stack_channel_list]

FirstChannel == {channel_order_list[1]}
LastChannel == {channel_order_list[NumChannels]}

\* What a region acquires: the three modality flags, the three channel lists,
\* the direction of the z scan and the video exposure (1000 ms: one frame per
\* second of video_duration, 500 ms: two).
RegionKinds ==
    LET kind(sb, vb, zb, sl, vl, zl, zs, ze, ve) ==
            [snap_boolean |-> sb, video_boolean |-> vb, z_stack_boolean |-> zb,
             snap_channel_list |-> sl, video_channel_list |-> vl,
             z_stack_channel_list |-> zl,
             z_start_position |-> zs, z_end_position |-> ze,
             video_exposure_time |-> ve]
    IN  { kind(TRUE, TRUE, TRUE, Channels, Channels, Channels, 0, 20, 500),
          kind(TRUE, TRUE, FALSE, FirstChannel, LastChannel, Channels, 0, 20, 1000),
          kind(FALSE, FALSE, TRUE, Channels, {}, Channels, 45, 20, 500),
          kind(TRUE, TRUE, TRUE, {}, {}, FirstChannel, 14, 0, 500),
          kind(FALSE, FALSE, FALSE, {}, {}, {}, 0, 20, 500) }

\* The unused cell of region_settings_list: the source stores the integer 0.
EmptyRegion == [sentinel |-> 0]

\* The grids of a run: two samples of one region each, every cell unused or of
\* one of the kinds above.
Grids == [0..1 -> [0..0 -> RegionKinds \cup {EmptyRegion}]]

MakeGrid(g) ==
    [s \in DOMAIN g |->
        [r \in DOMAIN g[s] |->
            IF g[s][r] = EmptyRegion THEN EmptyRegion
            ELSE RegionSettings(s, r, g[s][r])]]

\* z_scan_speed is in thousandths (0.030 is 30).  A run is of one time point
\* (time_points_boolean off) or of MaxTimePoints.
AcquisitionSettingsSet ==
    { a \in [lightsheet_mode_boolean : BOOLEAN,
             time_points_boolean : BOOLEAN,
             num_time_points : {0, MaxTimePoints},
             time_points_interval : {1},
             z_scan_speed : {30},
             sample_dimension : {2},
             region_dimension : {1}] :
        a.time_points_boolean <=> a.num_time_points # 0 }

Configurations == AcquisitionSettingsSet \X Grids

\* The clock of a time point, in units of time_points_interval's minutes:
\* duration is the time since "start" was read (line 342), which is what
\* lines 400-406 compute; at_first is the time since the stage was last moved
\* to the position of cell [0][0] in the region loop (line 363).
NoTime == [duration |-> 0, at_first |-> 0]
Later(clock, d) ==
    [duration |-> clock.duration + d, at_first |-> clock.at_first + d]

\* --------------------------------------------------------- state after construction
IdleCamera == [running |-> FALSE, remaining |-> 0, produced |-> 0, target |-> 0,
               stalled |-> FALSE]

Init ==
    /\ \E c \in Configurations :
        /\ acquisition_settings = c[1]
        /\ region_settings_list = MakeGrid(c[2])
    /\ abort_boolean = FALSE
    /\ pc = "start"
    /\ num_time_points = 0
    /\ sample_num = 0
    /\ region_num = 0
    /\ elapsed = NoTime
    /\ chan = 1
    /\ cur_frame = 0
    /\ timeout = 0
    /\ num_target = 0
    /\ z_start = 0
    /\ z_end = 0
    /\ lightsheet_readout_framerate \in
            IF acquisition_settings.lightsheet_mode_boolean THEN {1, 30} ELSE {30}
    /\ cam = IdleCamera
    /\ hw = [stage |-> <<0, 0, 0>>, scan |-> <<0, 0>>, camera |-> "default",
             galvo |-> "continuous", joystick |-> "locked", label |-> "",
             flagged_moves |-> 0]
    /\ data = NoData
    /\ opened = <<>>
    /\ open_sinks = {}
    /\ abortSeen = FALSE
    /\ lastOps = <<>>

\* ------------------------------------------------------------ device calls
\* core.stop_sequence_acquisition()
StopSequence(c) == [c EXCEPT !.running = FALSE, !.stalled = FALSE]
\* core.clear_circular_buffer()
ClearBuffer(c) == [c EXCEPT !.remaining = 0]
\* core.start_sequence_acquisition(n, 0, _)
StartSequence(c, n) ==
    [c EXCEPT !.running = TRUE, !.produced = 0, !.target = n, !.stalled = FALSE]
\* studio.data().create_single_plane_tiff_series_datastore(path)
OpenData(path) == [open |-> TRUE, closes |-> 0, path |-> path, frames |-> <<>>]
\* data.put_image(image)
PutImage(d, image) == [d EXCEPT !.frames = Append(@, image)]
\* data.close()
CloseData(d) == [d EXCEPT !.open = FALSE, !.closes = @ + 1]
\* The datastores left open by creating the one at path / by closing d.
Created(sinks, path) == sinks \cup {path}
Closed(sinks, d) == sinks \ {d.path}

region_settings == region_settings_list[sample_num][region_num]
channel == channel_order_list[chan]

Image(axis, index, c, z_um) ==
    [axis |-> axis, index |-> index, c |-> c,
     x |-> region_settings.x_position, y |-> region_settings.y_position, z |-> z_um]

Path(modality) == <<modality, sample_num, region_num, channel, num_time_points>>

\* The sequencers' local variables: run() leaves them alone, and a return
\* drops them.
SeqLocals == <<chan, cur_frame, timeout, num_target, z_start, z_end>>
Return ==
    /\ chan' = 1
    /\ cur_frame' = 0
    /\ timeout' = 0
    /\ num_target' = 0
    /\ z_start' = 0
    /\ z_end' = 0
Config == <<acquisition_settings, region_settings_list>>

\* ------------------------------------------------------------------- run()
\* settings_num_time_points, lines 337-339
SettingsNumTimePoints ==
    IF acquisition_settings.time_points_boolean
       /\ acquisition_settings.num_time_points # 0
    THEN acquisition_settings.num_time_points
    ELSE 1

\* The next (sample_num, region_num) of the nested for loops, lines 351-352.
NextCell ==
    IF region_num + 1 < acquisition_settings.region_dimension
    THEN <<sample_num, region_num + 1>>
    ELSE <<sample_num + 1, 0>>

\* hw.flagged_moves counts the calls of move_stage to a region's position
\* (lines 363 and 394) that are made while abort_boolean is set.
FlaggedMoves == IF abort_boolean THEN hw.flagged_moves + 1 ELSE hw.flagged_moves

\* Lines 387-388: time points are configured and more than one is left.
WaitFollows ==
    /\ acquisition_settings.time_points_boolean
    /\ acquisition_settings.num_time_points - num_time_points > 1

\* Lines 331-339: run() resets the flag, clears the camera and enters the
\* time point loop.
RunStart ==
    /\ pc = "start"
    /\ abort_boolean' = FALSE
    /\ cam' = ClearBuffer(StopSequence(cam))
    /\ num_time_points' = 0
    /\ pc' = "timepoint"
    /\ lastOps' = <<Op("stop_sequence", <<>>), Op("clear_buffer", <<>>)>>
    /\ UNCHANGED <<Config, sample_num, region_num, elapsed, SeqLocals,
                   lightsheet_readout_framerate, hw, data, open_sinks, opened, abortSeen>>

\* Lines 341-349: the head of one time point and its poll of the flag.
TimepointBegin ==
    /\ pc = "timepoint"
    /\ num_time_points < SettingsNumTimePoints
    /\ elapsed' = NoTime
    /\ hw' = [hw EXCEPT !.label = "Initializing Acquisition"]
    /\ lastOps' = <<>>
    /\ IF abort_boolean
       THEN /\ abortSeen' = TRUE
            /\ pc' = "aborting"
            /\ UNCHANGED <<sample_num, region_num>>
       ELSE /\ sample_num' = 0
            /\ region_num' = 0
            /\ pc' = "region"
            /\ UNCHANGED abortSeen
    /\ UNCHANGED <<Config, abort_boolean, num_time_points, SeqLocals,
                   lightsheet_readout_framerate, cam, data, open_sinks, opened>>

\* Lines 424-428: the time point loop is over.
RunComplete ==
    /\ pc = "timepoint"
    /\ num_time_points >= SettingsNumTimePoints
    /\ hw' = [hw EXCEPT !.camera = "default", !.galvo = "continuous",
                        !.joystick = "reset",
                        !.label = "Your acquisition was successful!"]
    /\ lastOps' = <<Op("set_default_camera_properties", <<>>),
                    Op("continuous_scan", <<>>), Op("reset_joystick", <<>>)>>
    /\ pc' = "completed"
    /\ UNCHANGED <<Config, abort_boolean, num_time_points, sample_num, region_num,
                   elapsed, SeqLocals, lightsheet_readout_framerate, cam, data, open_sinks,
                   opened, abortSeen>>

\* Lines 351-354: a cell holding 0 is passed over.
RegionSkip ==
    /\ pc = "region"
    /\ sample_num < acquisition_settings.sample_dimension
    /\ region_settings = EmptyRegion
    /\ sample_num' = NextCell[1]
    /\ region_num' = NextCell[2]
    /\ lastOps' = <<>>
    /\ UNCHANGED <<Config, abort_boolean, pc, num_time_points, elapsed, SeqLocals,
                   lightsheet_readout_framerate, cam, hw, data, open_sinks, opened, abortSeen>>

\* Lines 353-363: the stage is moved to the region's position.  The move to
\* cell [0][0], the position the stage goes back to before the wait of lines
\* 404-422, takes no time or one unit of it; the clock is followed in the time
\* points that such a wait follows.
RegionBegin ==
    /\ pc = "region"
    /\ sample_num < acquisition_settings.sample_dimension
    /\ region_settings # EmptyRegion
    /\ hw' = [hw EXCEPT !.stage = <<region_settings.x_position,
                                    region_settings.y_position,
                                    region_settings.z_position>>,
                        !.label = "Moving to start position...",
                        !.flagged_moves = FlaggedMoves]
    /\ lastOps' = <<Op("move_stage", <<region_settings.x_position,
                                       region_settings.y_position,
                                       region_settings.z_position>>)>>
    /\ pc' = "snap_gate"
    /\ IF sample_num = 0 /\ region_num = 0 /\ WaitFollows
       THEN \E d \in 0..1 :
               elapsed' = [duration |-> elapsed.duration + d, at_first |-> 0]
       ELSE UNCHANGED elapsed
    /\ UNCHANGED <<Config, abort_boolean, num_time_points, sample_num, region_num,
                   SeqLocals, lightsheet_readout_framerate, cam, data, open_sinks,
                   opened, abortSeen>>

\* Line 383: the sample and region loops are over; the flag is polled.
\* Lines 387-401: with time points left, the stage goes back to cell [0][0],
\* whose position fields are read whether or not the cell is in use (an
\* AttributeError on the integer 0 ends the thread), and the time since
\* "start" is read.
TimepointEnd ==
    /\ pc = "region"
    /\ sample_num >= acquisition_settings.sample_dimension
    /\ IF abort_boolean
       THEN /\ abortSeen' = TRUE
            /\ pc' = "aborting"
            /\ lastOps' = <<>>
            /\ UNCHANGED <<hw, elapsed, num_time_points>>
       ELSE /\ UNCHANGED abortSeen
            /\ IF WaitFollows
               THEN IF region_settings_list[0][0] = EmptyRegion
                    THEN /\ pc' = "crashed_run"
                         /\ hw' = [hw EXCEPT !.label = "Moving back to start position..."]
                         /\ lastOps' = <<>>
                         /\ UNCHANGED <<elapsed, num_time_points>>
                    ELSE /\ pc' = "wait"
                         /\ LET first == region_settings_list[0][0]
                                pos == <<first.x_position, first.y_position,
                                         first.z_position>>
                            IN  /\ hw' = [hw EXCEPT !.stage = pos,
                                            !.label = "Moving back to start position...",
                                            !.flagged_moves = FlaggedMoves]
                                /\ lastOps' = <<Op("move_stage", pos),
                                                Op("wait_for_device", <<>>)>>
                         /\ \E d \in 0..1 : elapsed' = Later(elapsed, d)
                         /\ UNCHANGED num_time_points
               ELSE /\ pc' = "timepoint"
                    /\ num_time_points' = num_time_points + 1
                    /\ lastOps' = <<>>
                    /\ UNCHANGED <<hw, elapsed>>
    /\ UNCHANGED <<Config, abort_boolean, sample_num, region_num, SeqLocals,
                   lightsheet_readout_framerate, cam, data, open_sinks, opened>>

\* Lines 404-422: one pass of the wait for the next time point.
\* elapsed.duration is duration_ms in units of time_points_interval's minutes;
\* a reading of the clock is the last one or one minute later.
WaitIteration ==
    /\ pc = "wait"
    /\ acquisition_settings.time_points_interval - elapsed.duration > 0
    /\ \E d \in 0..1 : elapsed' = Later(elapsed, d)
    /\ hw' = [hw EXCEPT !.label = "next time point"]
    /\ lastOps' = <<>>
    /\ IF abort_boolean
       THEN /\ abortSeen' = TRUE
            /\ pc' = "aborting"
       ELSE UNCHANGED <<abortSeen, pc>>
    /\ UNCHANGED <<Config, abort_boolean, num_time_points, sample_num, region_num,
                   SeqLocals, lightsheet_readout_framerate, cam, data, open_sinks, opened>>

\* Line 404 false: the interval has passed, the next time point begins.
WaitOver ==
    /\ pc = "wait"
    /\ ~(acquisition_settings.time_points_interval - elapsed.duration > 0)
    /\ num_time_points' = num_time_points + 1
    /\ pc' = "timepoint"
    /\ lastOps' = <<>>
    /\ UNCHANGED <<Config, abort_boolean, sample_num, region_num, elapsed,
                   SeqLocals, lightsheet_readout_framerate, cam, hw, data, open_sinks, opened,
                   abortSeen>>

\* abort_acquisition() without core.stop_sequence_acquisition().
AbortAcquisitionNoStop ==
    /\ pc = "aborting"
    /\ cam' = ClearBuffer(cam)
    /\ hw' = [hw EXCEPT !.camera = "default", !.galvo = "reset",
                        !.joystick = "reset", !.label = "Aborted"]
    /\ lastOps' = <<Op("clear_buffer", <<>>),
                    Op("set_default_camera_properties", <<>>),
                    Op("reset_tasks", <<>>), Op("wait_for_device", <<>>),
                    Op("reset_joystick", <<>>), Op("label_aborted", <<>>)>>
    /\ pc' = "aborted"
    /\ UNCHANGED <<Config, abort_boolean, num_time_points, sample_num, region_num,
                   elapsed, SeqLocals, lightsheet_readout_framerate, data,
                   open_sinks, opened, abortSeen>>

\* Lines 318-328: abort_acquisition().
AbortAcquisition ==
    /\ pc = "aborting"
    /\ cam' = ClearBuffer(StopSequence(cam))
    /\ hw' = [hw EXCEPT !.camera = "default", !.galvo = "reset",
                        !.joystick = "reset", !.label = "Aborted"]
    /\ lastOps' = <<Op("stop_sequence", <<>>), Op("clear_buffer", <<>>),
                    Op("set_default_camera_properties", <<>>),
                    Op("reset_tasks", <<>>), Op("wait_for_device", <<>>),
                    Op("reset_joystick", <<>>), Op("label_aborted", <<>>)>>
    /\ pc' = "aborted"
    /\ UNCHANGED <<Config, abort_boolean, num_time_points, sample_num, region_num,
                   elapsed, SeqLocals, lightsheet_readout_framerate, data, open_sinks, opened,
                   abortSeen>>

\* run() going on after a sequencer without polling the flag.
AfterSequencerNoPoll(next_pc, end_of_cell) ==
    /\ lastOps' = <<>>
    /\ pc' = next_pc
    /\ IF end_of_cell
       THEN /\ sample_num' = NextCell[1]
            /\ region_num' = NextCell[2]
       ELSE UNCHANGED <<sample_num, region_num>>
    /\ UNCHANGED <<Config, abort_boolean, num_time_points, elapsed, SeqLocals,
                   lightsheet_readout_framerate, cam, hw, data, open_sinks,
                   opened, abortSeen>>

\* Lines 365-381: what run() does when a sequencer has returned: poll the flag,
\* then go on to the next sequencer or cell.
AfterSequencer(next_pc, end_of_cell) ==
    /\ lastOps' = <<>>
    /\ IF abort_boolean
       THEN /\ abortSeen' = TRUE
            /\ pc' = "aborting"
            /\ UNCHANGED <<sample_num, region_num>>
       ELSE /\ UNCHANGED abortSeen
            /\ pc' = next_pc
            /\ IF end_of_cell
               THEN /\ sample_num' = NextCell[1]
                    /\ region_num' = NextCell[2]
               ELSE UNCHANGED <<sample_num, region_num>>
    /\ UNCHANGED <<Config, abort_boolean, num_time_points, elapsed, SeqLocals,
                   lightsheet_readout_framerate, cam, hw, data, open_sinks, opened>>

\* -------------------------------------------------------- snap_acquisition
\* run() calling snap_acquisition whatever snap_boolean is.
SnapGateUngated ==
    /\ pc = "snap_gate"
    /\ pc' = "snap_loop"
    /\ chan' = 1
    /\ opened' = <<>>
    /\ data' = NoData
    /\ lastOps' = <<>>
    /\ UNCHANGED <<Config, abort_boolean, num_time_points, sample_num, region_num,
                   elapsed, cur_frame, timeout, num_target, z_start, z_end,
                   lightsheet_readout_framerate, cam, hw, abortSeen, open_sinks>>

\* Line 365: run() calls snap_acquisition if the region has snap_boolean.
SnapGate ==
    /\ pc = "snap_gate"
    /\ IF region_settings.snap_boolean
       THEN /\ pc' = "snap_loop"
            /\ chan' = 1
            /\ opened' = <<>>
            /\ data' = NoData
            /\ UNCHANGED open_sinks
       ELSE /\ pc' = "video_gate"
            /\ UNCHANGED <<chan, opened, data, open_sinks>>
    /\ lastOps' = <<>>
    /\ UNCHANGED <<Config, abort_boolean, num_time_points, sample_num, region_num,
                   elapsed, cur_frame, timeout, num_target, z_start, z_end,
                   lightsheet_readout_framerate, cam, hw, abortSeen>>

\* Lines 62-63: a channel that is not in snap_channel_list.
SnapNext ==
    /\ pc = "snap_loop"
    /\ chan <= NumChannels
    /\ channel \notin region_settings.snap_channel_list
    /\ chan' = chan + 1
    /\ lastOps' = <<>>
    /\ UNCHANGED <<Config, abort_boolean, pc, num_time_points, sample_num,
                   region_num, elapsed, cur_frame, timeout, num_target, z_start,
                   z_end, lightsheet_readout_framerate, cam, hw, data, open_sinks, opened,
                   abortSeen>>

\* Line 73: min(int(np.round(1 / framerate) * 10 ** 3), 40), for framerate > 0.
SnapReadoutFramerate(framerate) ==
    Min(RoundDiv(1, framerate) * 1000, MAX_LS_FRAMERATE)

\* Lines 64-98: one channel's snap.  In light sheet mode line 73 divides by
\* the readout framerate the previous channel left: a ZeroDivisionError ends
\* the thread when that is 0.
SnapChannel ==
    /\ pc = "snap_loop"
    /\ chan <= NumChannels
    /\ channel \in region_settings.snap_channel_list
    /\ IF acquisition_settings.lightsheet_mode_boolean
          /\ lightsheet_readout_framerate = 0
       THEN /\ pc' = "crashed_snap"
            /\ hw' = [hw EXCEPT !.label = "Initializing snap"]
            /\ lastOps' = <<Op("set_config", <<channel>>)>>
            /\ UNCHANGED <<lightsheet_readout_framerate, cam, data, open_sinks, opened>>
       ELSE /\ pc' = "snap_poll"
            /\ IF acquisition_settings.lightsheet_mode_boolean
               THEN /\ lightsheet_readout_framerate' =
                            SnapReadoutFramerate(lightsheet_readout_framerate)
                    /\ hw' = [hw EXCEPT !.camera = "lsrm", !.galvo = "readout",
                                        !.label = "Saving snap"]
               ELSE /\ UNCHANGED lightsheet_readout_framerate
                    /\ hw' = [hw EXCEPT !.camera = "default",
                                        !.galvo = "continuous",
                                        !.label = "Saving snap"]
            /\ data' = CloseData(PutImage(OpenData(Path("snap")),
                            Image("none", 0, IndexOf(channel_order_list, channel),
                                  region_settings.z_position)))
            /\ open_sinks' = Closed(Created(open_sinks, Path("snap")),
                                     OpenData(Path("snap")))
            /\ opened' = Append(opened, channel)
            /\ cam' = ClearBuffer(cam)
            /\ lastOps' = <<Op("set_config", <<channel>>),
                            Op("open", <<channel>>), Op("put_image", <<0>>),
                            Op("close", <<>>), Op("clear_buffer", <<>>)>>
    /\ UNCHANGED <<Config, abort_boolean, num_time_points, sample_num, region_num,
                   elapsed, SeqLocals, abortSeen>>

\* A sequencer going on to the next channel without polling the flag.
ChannelPollNoCheck(loop_pc, ret_pc) ==
    /\ chan' = chan + 1
    /\ pc' = loop_pc
    /\ lastOps' = <<>>
    /\ UNCHANGED <<Config, abort_boolean, num_time_points, sample_num, region_num,
                   elapsed, lightsheet_readout_framerate, cam, hw, opened,
                   abortSeen, data, open_sinks, cur_frame, timeout, num_target,
                   z_start, z_end>>

\* What every sequencer does after a channel's datastore is closed (lines
\* 100-102, 187-189, 301-303): poll the flag; if set, close data and return.
ChannelPoll(loop_pc, ret_pc) ==
    /\ IF abort_boolean
       THEN /\ abortSeen' = TRUE
            /\ data' = CloseData(data)
            /\ open_sinks' = Closed(open_sinks, data)
            /\ lastOps' = <<Op("close", <<>>)>>
            /\ pc' = ret_pc
            /\ Return
       ELSE /\ chan' = chan + 1
            /\ pc' = loop_pc
            /\ lastOps' = <<>>
            /\ UNCHANGED <<abortSeen, data, open_sinks, cur_frame, timeout, num_target,
                           z_start, z_end>>
    /\ UNCHANGED <<Config, abort_boolean, num_time_points, sample_num, region_num,
                   elapsed, lightsheet_readout_framerate, cam, hw, opened>>

SnapPoll ==
    /\ pc = "snap_poll"
    /\ ChannelPoll("snap_loop", "snap_ret")

\* What every sequencer does when its channel loop is over (lines 104, 192,
\* 305): spim_commands.reset_tasks(), and return.
SequencerEnd(ret_pc) ==
    /\ chan > NumChannels
    /\ hw' = [hw EXCEPT !.galvo = "reset"]
    /\ lastOps' = <<Op("reset_tasks", <<>>)>>
    /\ pc' = ret_pc
    /\ Return
    /\ UNCHANGED <<Config, abort_boolean, num_time_points, sample_num, region_num,
                   elapsed, lightsheet_readout_framerate, cam, data, open_sinks, opened,
                   abortSeen>>

SnapEnd ==
    /\ pc = "snap_loop"
    /\ SequencerEnd("snap_ret")

\* Lines 367-369
AfterSnap ==
    /\ pc = "snap_ret"
    /\ AfterSequencer("video_gate", FALSE)

\* ------------------------------------------------------- video_acquisition
\* Line 371
VideoGate ==
    /\ pc = "video_gate"
    /\ IF region_settings.video_boolean
       THEN /\ pc' = "video_loop"
            /\ chan' = 1
            /\ opened' = <<>>
            /\ data' = NoData
            /\ UNCHANGED open_sinks
       ELSE /\ pc' = "z_gate"
            /\ UNCHANGED <<chan, opened, data, open_sinks>>
    /\ lastOps' = <<>>
    /\ UNCHANGED <<Config, abort_boolean, num_time_points, sample_num, region_num,
                   elapsed, cur_frame, timeout, num_target, z_start, z_end,
                   lightsheet_readout_framerate, cam, hw, abortSeen>>

\* Lines 108-109
VideoNext ==
    /\ pc = "video_loop"
    /\ chan <= NumChannels
    /\ channel \notin region_settings.video_channel_list
    /\ chan' = chan + 1
    /\ lastOps' = <<>>
    /\ UNCHANGED <<Config, abort_boolean, pc, num_time_points, sample_num,
                   region_num, elapsed, cur_frame, timeout, num_target, z_start,
                   z_end, lightsheet_readout_framerate, cam, hw, data, open_sinks, opened,
                   abortSeen>>

\* The framerate of line 115 in both modes: no ceiling in light sheet mode.
VideoFramerateNoCeiling(lightsheet, exposure) == RoundDiv(1000, exposure)

\* Lines 115 and 118
VideoFramerate(lightsheet, exposure) ==
    IF lightsheet
    THEN Min(RoundDiv(1000, exposure), MAX_LS_FRAMERATE)
    ELSE RoundDiv(1000, exposure)

\* Line 129
NumImages(lightsheet, exposure, duration) ==
    VideoFramerate(lightsheet, exposure) * duration

\* Lines 110-139: camera and galvo are set up, the datastore is created and
\* the camera sequence is started.
VideoChannel ==
    /\ pc = "video_loop"
    /\ chan <= NumChannels
    /\ channel \in region_settings.video_channel_list
    /\ LET ls == acquisition_settings.lightsheet_mode_boolean
           n == NumImages(ls, region_settings.video_exposure_time,
                          region_settings.video_duration)
       IN  /\ IF ls
              THEN /\ lightsheet_readout_framerate' =
                        VideoFramerate(ls, region_settings.video_exposure_time)
                   /\ hw' = [hw EXCEPT !.camera = "lsrm", !.galvo = "readout",
                                       !.label = "Acquiring video"]
              ELSE /\ UNCHANGED lightsheet_readout_framerate
                   /\ hw' = [hw EXCEPT !.camera = "default",
                                       !.galvo = "continuous",
                                       !.label = "Acquiring video"]
           /\ num_target' = n
           /\ cam' = StartSequence(cam, n)
           /\ lastOps' = <<Op("set_config", <<channel>>), Op("open", <<channel>>),
                           Op("start_sequence", <<n>>)>>
    /\ data' = OpenData(Path("video"))
    /\ open_sinks' = Created(open_sinks, Path("video"))
    /\ opened' = Append(opened, channel)
    /\ cur_frame' = 0
    /\ timeout' = 0
    /\ pc' = "video_while"
    /\ UNCHANGED <<Config, abort_boolean, num_time_points, sample_num, region_num,
                   elapsed, chan, z_start, z_end, abortSeen>>

\* The loop condition of lines 143 and 252:
\*   core.get_remaining_image_count() > 0 or core.is_sequence_running()
WhileCondition == cam.remaining > 0 \/ cam.running

\* The condition is two reads of the camera.  The one way the camera can make
\* it false while an image is still to come: the first read finds the buffer
\* empty, the camera then delivers the last image of the sequence, which ends
\* it, and the second read finds the sequence over.  The loop is left with
\* that image in the buffer.
WhileRace(after_pc) ==
    /\ cam.remaining = 0
    /\ cam.running
    /\ ~cam.stalled
    /\ cam.produced + 1 = cam.target
    /\ cam' = [cam EXCEPT !.remaining = 1, !.produced = cam.target,
                          !.running = FALSE]
    /\ pc' = after_pc
    /\ lastOps' = <<>>
    /\ UNCHANGED <<Config, abort_boolean, num_time_points, sample_num, region_num,
                   elapsed, SeqLocals, lightsheet_readout_framerate, hw, data, open_sinks,
                   opened, abortSeen>>

\* The condition is false: the loop is over.
WhileOver(after_pc) ==
    /\ ~WhileCondition
    /\ pc' = after_pc
    /\ lastOps' = <<>>
    /\ UNCHANGED <<Config, abort_boolean, num_time_points, sample_num, region_num,
                   elapsed, SeqLocals, lightsheet_readout_framerate, cam, hw, data, open_sinks,
                   opened, abortSeen>>

\* Line 143
VideoWhileOver ==
    /\ pc = "video_while"
    /\ WhileOver("video_after")

VideoWhileRace ==
    /\ pc = "video_while"
    /\ WhileRace("video_after")

\* The drain loop returning on the flag without data.close().
DrainAbortNoClose(ret_pc) ==
    /\ abort_boolean
    /\ abortSeen' = TRUE
    /\ lastOps' = <<>>
    /\ pc' = ret_pc
    /\ Return
    /\ UNCHANGED <<Config, abort_boolean, num_time_points, sample_num, region_num,
                   elapsed, lightsheet_readout_framerate, cam, hw, data,
                   open_sinks, opened>>

\* Lines 144-146 and 255-257: the drain loop finds the flag set, closes data
\* and returns.
DrainAbort(ret_pc) ==
    /\ abort_boolean
    /\ abortSeen' = TRUE
    /\ data' = CloseData(data)
    /\ open_sinks' = Closed(open_sinks, data)
    /\ lastOps' = <<Op("close", <<>>)>>
    /\ pc' = ret_pc
    /\ Return
    /\ UNCHANGED <<Config, abort_boolean, num_time_points, sample_num, region_num,
                   elapsed, lightsheet_readout_framerate, cam, hw, opened>>

VideoAbort ==
    /\ pc = "video_while"
    /\ WhileCondition
    /\ DrainAbort("video_ret")

\* The timeout branch of video without core.stop_sequence_acquisition().
VideoTimeoutNoStop ==
    /\ pc = "video_while"
    /\ WhileCondition
    /\ ~abort_boolean
    /\ timeout > TIMEOUT_LIMIT
    /\ cam' = ClearBuffer(cam)
    /\ hw' = [hw EXCEPT !.label = "video failed, camera timeout"]
    /\ lastOps' = <<Op("clear_buffer", <<>>)>>
    /\ pc' = "video_while"
    /\ UNCHANGED <<Config, abort_boolean, num_time_points, sample_num, region_num,
                   elapsed, SeqLocals, lightsheet_readout_framerate, data,
                   open_sinks, opened, abortSeen>>

\* Lines 150-156: more than 500 idle polls in a row.
VideoTimeout ==
    /\ pc = "video_while"
    /\ WhileCondition
    /\ ~abort_boolean
    /\ timeout > TIMEOUT_LIMIT
    /\ cam' = ClearBuffer(StopSequence(cam))
    /\ hw' = [hw EXCEPT !.label = "video failed, camera timeout"]
    /\ lastOps' = <<Op("stop_sequence", <<>>), Op("clear_buffer", <<>>)>>
    /\ pc' = "video_while"
    /\ UNCHANGED <<Config, abort_boolean, num_time_points, sample_num, region_num,
                   elapsed, SeqLocals, lightsheet_readout_framerate, data, open_sinks, opened,
                   abortSeen>>

\* core.pop_next_tagged_image()
PopImage(c) == [c EXCEPT !.remaining = @ - 1]

\* Lines 159-175 without "timeout = 0".
VideoSaveNoReset ==
    /\ pc = "video_while"
    /\ WhileCondition
    /\ ~abort_boolean
    /\ ~(timeout > TIMEOUT_LIMIT)
    /\ cam.remaining > 0
    /\ cam' = PopImage(cam)
    /\ data' = PutImage(data, Image("t", cur_frame,
                                    IndexOf(channel_order_list, channel),
                                    region_settings.z_position))
    /\ cur_frame' = cur_frame + 1
    /\ hw' = IF ~cam.running THEN [hw EXCEPT !.label = "Saving video"] ELSE hw
    /\ lastOps' = <<Op("pop", <<>>), Op("put_image", <<cur_frame>>)>>
    /\ pc' = "video_while"
    /\ UNCHANGED <<Config, abort_boolean, num_time_points, sample_num, region_num,
                   elapsed, chan, timeout, num_target, z_start, z_end,
                   lightsheet_readout_framerate, opened, abortSeen, open_sinks>>

\* Lines 159-175: a buffered image is popped, stamped and put in data.  The
\* label becomes "Saving" once the sequence is over (sequence_boolean only
\* keeps the same text from being set twice).
VideoSave ==
    /\ pc = "video_while"
    /\ WhileCondition
    /\ ~abort_boolean
    /\ ~(timeout > TIMEOUT_LIMIT)
    /\ cam.remaining > 0
    /\ cam' = PopImage(cam)
    /\ data' = PutImage(data, Image("t", cur_frame,
                                    IndexOf(channel_order_list, channel),
                                    region_settings.z_position))
    /\ UNCHANGED open_sinks
    /\ cur_frame' = cur_frame + 1
    /\ timeout' = 0
    /\ hw' = IF ~cam.running THEN [hw EXCEPT !.label = "Saving video"] ELSE hw
    /\ lastOps' = <<Op("pop", <<>>), Op("put_image", <<cur_frame>>)>>
    /\ pc' = "video_while"
    /\ UNCHANGED <<Config, abort_boolean, num_time_points, sample_num, region_num,
                   elapsed, chan, num_target, z_start, z_end,
                   lightsheet_readout_framerate, opened, abortSeen>>

\* A camera that is delivering puts the next image in the buffer before the
\* worker has slept through more than MaxIdleGap polls; one that has stalled,
\* or whose sequence is over, delivers nothing however long the worker sleeps.
SleepAllowed == cam.stalled \/ ~cam.running \/ timeout < MaxIdleGap

\* Lines 178-180: core.sleep(5); timeout += 1
VideoIdle ==
    /\ pc = "video_while"
    /\ WhileCondition
    /\ ~abort_boolean
    /\ ~(timeout > TIMEOUT_LIMIT)
    /\ cam.remaining = 0
    /\ SleepAllowed
    /\ timeout' = timeout + 1
    /\ lastOps' = <<Op("sleep", <<>>)>>
    /\ pc' = "video_while"
    /\ UNCHANGED <<Config, abort_boolean, num_time_points, sample_num, region_num,
                   elapsed, chan, cur_frame, num_target, z_start, z_end,
                   lightsheet_readout_framerate, cam, hw, data, open_sinks, opened, abortSeen>>

\* Lines 183-185
VideoAfter ==
    /\ pc = "video_after"
    /\ cam' = ClearBuffer(StopSequence(cam))
    /\ data' = CloseData(data)
    /\ open_sinks' = Closed(open_sinks, data)
    /\ lastOps' = <<Op("stop_sequence", <<>>), Op("close", <<>>),
                    Op("clear_buffer", <<>>)>>
    /\ pc' = "video_poll"
    /\ UNCHANGED <<Config, abort_boolean, num_time_points, sample_num, region_num,
                   elapsed, SeqLocals, lightsheet_readout_framerate, hw, opened,
                   abortSeen>>

\* Lines 187-189
VideoPoll ==
    /\ pc = "video_poll"
    /\ ChannelPoll("video_loop", "video_ret")

\* Line 192
VideoEnd ==
    /\ pc = "video_loop"
    /\ SequencerEnd("video_ret")

\* Lines 373-375
AfterVideo ==
    /\ pc = "video_ret"
    /\ AfterSequencer("z_gate", FALSE)

\* ----------------------------------------------------- z_stack_acquisition
\* Line 199: int(np.round(np.abs(z_end - z_start) / step_size))
NumFrames(zs, ze, step) == RoundDiv(Abs(ze - zs), step)

\* Lines 203-206: the readout framerate that goes with the scan speed.
ScanFramerate(speed, framerate) ==
    IF speed = 15 THEN 15 ELSE IF speed = 30 THEN 30 ELSE framerate

\* Lines 377 and 196-216: run() calls z_stack_acquisition if the region has
\* z_stack_boolean; the locals are set from the region and camera, galvo and
\* PLC are set up for the scan.
ZStackGate ==
    /\ pc = "z_gate"
    /\ lastOps' = <<>>
    /\ IF region_settings.z_stack_boolean
       THEN /\ pc' = "z_loop"
            /\ chan' = 1
            /\ opened' = <<>>
            /\ data' = NoData
            /\ UNCHANGED open_sinks
            /\ z_start' = region_settings.z_start_position
            /\ z_end' = region_settings.z_end_position
            /\ num_target' = NumFrames(region_settings.z_start_position,
                                       region_settings.z_end_position,
                                       region_settings.step_size)
            /\ IF acquisition_settings.lightsheet_mode_boolean
               THEN /\ lightsheet_readout_framerate' =
                          ScanFramerate(acquisition_settings.z_scan_speed,
                                        lightsheet_readout_framerate)
                    /\ hw' = [hw EXCEPT !.camera = "lsrm", !.galvo = "readout"]
               ELSE /\ UNCHANGED lightsheet_readout_framerate
                    /\ hw' = [hw EXCEPT !.camera = "dslm", !.galvo = "continuous"]
            /\ UNCHANGED <<sample_num, region_num>>
       ELSE /\ pc' = "region"
            /\ sample_num' = NextCell[1]
            /\ region_num' = NextCell[2]
            /\ UNCHANGED <<chan, opened, data, open_sinks, z_start, z_end, num_target,
                           lightsheet_readout_framerate, hw>>
    /\ UNCHANGED <<Config, abort_boolean, num_time_points, elapsed, cur_frame,
                   timeout, cam, abortSeen>>

\* Lines 218-219
ZStackNext ==
    /\ pc = "z_loop"
    /\ chan <= NumChannels
    /\ channel \notin region_settings.z_stack_channel_list
    /\ chan' = chan + 1
    /\ lastOps' = <<>>
    /\ UNCHANGED <<Config, abort_boolean, pc, num_time_points, sample_num,
                   region_num, elapsed, cur_frame, timeout, num_target, z_start,
                   z_end, lightsheet_readout_framerate, cam, hw, data, open_sinks, opened,
                   abortSeen>>

\* Lines 228-234: the locals z_start and z_end after the scan buffer is applied.
BufferedRange(zs, ze) ==
    IF zs <= ze
    THEN <<zs - SCAN_BUFFER, ze + SCAN_BUFFER>>
    ELSE <<zs + SCAN_BUFFER, ze - SCAN_BUFFER>>

\* Lines 220-250: the datastore is created, the scan buffer is applied to the
\* locals z_start and z_end, the stage is moved and the scan and the camera
\* sequence are started.
ZStackChannel ==
    /\ pc = "z_loop"
    /\ chan <= NumChannels
    /\ channel \in region_settings.z_stack_channel_list
    /\ data' = OpenData(Path("zStack"))
    /\ open_sinks' = Created(open_sinks, Path("zStack"))
    /\ opened' = Append(opened, channel)
    /\ LET range == BufferedRange(z_start, z_end)
       IN  /\ z_start' = range[1]
           /\ z_end' = range[2]
           /\ hw' = [hw EXCEPT !.stage = <<region_settings.x_position,
                                           region_settings.y_position, range[1]>>,
                               !.scan = range,
                               !.label = "Acquiring z stack"]
           /\ lastOps' = <<Op("open", <<channel>>),
                           Op("move_stage", <<region_settings.x_position,
                                              region_settings.y_position,
                                              range[1]>>),
                           Op("scan_setup", range),
                           Op("set_config", <<channel>>),
                           Op("start_sequence", <<num_target>>),
                           Op("scan_start", <<>>)>>
    /\ cur_frame' = 0
    /\ timeout' = 0
    /\ cam' = StartSequence(cam, num_target)
    /\ pc' = "z_while"
    /\ UNCHANGED <<Config, abort_boolean, num_time_points, sample_num, region_num,
                   elapsed, chan, num_target, lightsheet_readout_framerate,
                   abortSeen>>

\* Line 252
ZStackWhile ==
    /\ pc = "z_while"
    /\ WhileCondition
    /\ pc' = "z_inner"
    /\ lastOps' = <<>>
    /\ UNCHANGED <<Config, abort_boolean, num_time_points, sample_num, region_num,
                   elapsed, SeqLocals, lightsheet_readout_framerate, cam, hw, data, open_sinks,
                   opened, abortSeen>>

ZStackWhileOver ==
    /\ pc = "z_while"
    /\ WhileOver("z_after")

ZStackWhileRace ==
    /\ pc = "z_while"
    /\ WhileRace("z_after")

\* The inner loop of z stack left whatever cur_frame is.
ZStackInnerOverEarly ==
    /\ pc = "z_inner"
    /\ cam' = StopSequence(cam)
    /\ lastOps' = <<Op("stop_sequence", <<>>)>>
    /\ pc' = "z_while"
    /\ UNCHANGED <<Config, abort_boolean, num_time_points, sample_num, region_num,
                   elapsed, SeqLocals, lightsheet_readout_framerate, hw, data,
                   open_sinks, opened, abortSeen>>

\* Lines 254 (false) and 292: the inner loop is over, the sequence is stopped.
ZStackInnerOver ==
    /\ pc = "z_inner"
    /\ ~(cur_frame < num_target)
    /\ cam' = StopSequence(cam)
    /\ lastOps' = <<Op("stop_sequence", <<>>)>>
    /\ pc' = "z_while"
    /\ UNCHANGED <<Config, abort_boolean, num_time_points, sample_num, region_num,
                   elapsed, SeqLocals, lightsheet_readout_framerate, hw, data, open_sinks,
                   opened, abortSeen>>

\* Lines 255-257
ZStackAbort ==
    /\ pc = "z_inner"
    /\ cur_frame < num_target
    /\ DrainAbort("z_ret")

\* Lines 275-278: the z position stamped on frame cur_frame.
StampedZ(zs, ze, step, frame) ==
    IF zs <= ze THEN zs + step * frame ELSE zs - step * frame

\* Lines 268-287 with the "if" of line 259 false: a buffered image is popped,
\* stamped and put in data.
ZStackSave ==
    /\ pc = "z_inner"
    /\ cur_frame < num_target
    /\ ~abort_boolean
    /\ ~(timeout > TIMEOUT_LIMIT)
    /\ cam.remaining > 0
    /\ cam' = PopImage(cam)
    /\ data' = PutImage(data,
                  Image("z", cur_frame, IndexOf(channel_order_list, channel),
                        StampedZ(z_start, z_end, region_settings.step_size,
                                 cur_frame)))
    /\ UNCHANGED open_sinks
    /\ cur_frame' = cur_frame + 1
    /\ timeout' = 0
    /\ hw' = IF ~cam.running THEN [hw EXCEPT !.label = "Saving z stack"] ELSE hw
    /\ lastOps' = <<Op("pop", <<>>), Op("put_image", <<cur_frame>>)>>
    /\ UNCHANGED <<Config, abort_boolean, pc, num_time_points, sample_num,
                   region_num, elapsed, chan, num_target, z_start, z_end,
                   lightsheet_readout_framerate, opened, abortSeen>>

\* Lines 288-290 with the "if" of line 259 false: core.sleep(5); timeout += 1
ZStackIdle ==
    /\ pc = "z_inner"
    /\ cur_frame < num_target
    /\ ~abort_boolean
    /\ ~(timeout > TIMEOUT_LIMIT)
    /\ cam.remaining = 0
    /\ SleepAllowed
    /\ timeout' = timeout + 1
    /\ lastOps' = <<Op("sleep", <<>>)>>
    /\ UNCHANGED <<Config, abort_boolean, pc, num_time_points, sample_num,
                   region_num, elapsed, chan, cur_frame, num_target, z_start,
                   z_end, lightsheet_readout_framerate, cam, hw, data, open_sinks, opened,
                   abortSeen>>

\* Lines 259-266 and 288-290: more than 500 idle polls in a row.  The sequence
\* is stopped and the buffer cleared, the failure is reported, and the pass
\* goes on: the buffer is empty, so the worker sleeps and counts one more
\* poll, and stays in the inner loop (cur_frame < num_frames still holds).
\* The count is followed up to MaxOverrun polls over the limit.
ZStackTimeout ==
    /\ pc = "z_inner"
    /\ cur_frame < num_target
    /\ ~abort_boolean
    /\ timeout > TIMEOUT_LIMIT
    /\ timeout < TIMEOUT_LIMIT + 1 + MaxOverrun
    /\ cam' = ClearBuffer(StopSequence(cam))
    /\ hw' = [hw EXCEPT !.label = "z stack failed, not enough images acquired"]
    /\ timeout' = timeout + 1
    /\ lastOps' = <<Op("stop_sequence", <<>>), Op("clear_buffer", <<>>),
                    Op("sleep", <<>>)>>
    /\ UNCHANGED <<Config, abort_boolean, pc, num_time_points, sample_num,
                   region_num, elapsed, chan, cur_frame, num_target, z_start,
                   z_end, lightsheet_readout_framerate, data, open_sinks, opened, abortSeen>>

\* Lines 294-295 without the waits of lines 297-299.
ZStackAfterNoWait ==
    /\ pc = "z_after"
    /\ data' = CloseData(data)
    /\ open_sinks' = Closed(open_sinks, data)
    /\ cam' = ClearBuffer(cam)
    /\ lastOps' = <<Op("close", <<>>), Op("clear_buffer", <<>>)>>
    /\ pc' = "z_poll"
    /\ UNCHANGED <<Config, abort_boolean, num_time_points, sample_num, region_num,
                   elapsed, SeqLocals, lightsheet_readout_framerate, hw, opened,
                   abortSeen>>

\* Lines 294-299
ZStackAfter ==
    /\ pc = "z_after"
    /\ data' = CloseData(data)
    /\ open_sinks' = Closed(open_sinks, data)
    /\ cam' = ClearBuffer(cam)
    /\ lastOps' = <<Op("close", <<>>), Op("clear_buffer", <<>>),
                    Op("wait_for_device", <<"xy_stage_name">>),
                    Op("wait_for_device", <<"z_stage_name">>),
                    Op("wait_for_device", <<"cam_name">>)>>
    /\ pc' = "z_poll"
    /\ UNCHANGED <<Config, abort_boolean, num_time_points, sample_num, region_num,
                   elapsed, SeqLocals, lightsheet_readout_framerate, hw, opened,
                   abortSeen>>

\* Lines 301-303
ZStackPoll ==
    /\ pc = "z_poll"
    /\ ChannelPoll("z_loop", "z_ret")

\* Line 305
ZStackEnd ==
    /\ pc = "z_loop"
    /\ SequencerEnd("z_ret")

\* Lines 379-381
AfterZStack ==
    /\ pc = "z_ret"
    /\ AfterSequencer("region", TRUE)

\* ------------------------------------------------------------- the camera
\* The camera puts an image of the running sequence in the circular buffer;
\* the sequence is over with its last image.
CameraFrame ==
    /\ cam.running
    /\ ~cam.stalled
    /\ cam.produced < cam.target
    /\ cam' = [cam EXCEPT !.remaining = @ + 1, !.produced = @ + 1,
                          !.running = cam.produced + 1 < cam.target]
    /\ UNCHANGED <<Config, abort_boolean, pc, num_time_points, sample_num,
                   region_num, elapsed, SeqLocals, lightsheet_readout_framerate,
                   hw, data, open_sinks, opened, abortSeen, lastOps>>

\* The camera gets stuck: the sequence stays running and delivers nothing.
CameraStall ==
    /\ cam.running
    /\ ~cam.stalled
    /\ cam' = [cam EXCEPT !.stalled = TRUE]
    /\ UNCHANGED <<Config, abort_boolean, pc, num_time_points, sample_num,
                   region_num, elapsed, SeqLocals, lightsheet_readout_framerate,
                   hw, data, open_sinks, opened, abortSeen, lastOps>>

\* ----------------------------------------------------- the control thread
\* Lines 311-313: abort_confirm_button_clicked(), connected in __init__.
AbortConfirm ==
    /\ ~abort_boolean
    /\ abort_boolean' = TRUE
    /\ UNCHANGED <<Config, pc, num_time_points, sample_num, region_num, elapsed,
                   SeqLocals, lightsheet_readout_framerate, cam, hw, data, open_sinks, opened,
                   abortSeen, lastOps>>

\* ------------------------------------------------------- the specification
Worker ==
    \/ RunStart \/ TimepointBegin \/ RunComplete
    \/ RegionSkip \/ RegionBegin \/ TimepointEnd
    \/ WaitIteration \/ WaitOver \/ AbortAcquisition
    \/ SnapGate \/ SnapNext \/ SnapChannel \/ SnapPoll \/ SnapEnd \/ AfterSnap
    \/ VideoGate \/ VideoNext \/ VideoChannel
    \/ VideoWhileOver \/ VideoWhileRace
    \/ VideoAbort \/ VideoTimeout \/ VideoSave \/ VideoIdle
    \/ VideoAfter \/ VideoPoll \/ VideoEnd \/ AfterVideo
    \/ ZStackGate \/ ZStackNext \/ ZStackChannel
    \/ ZStackWhile \/ ZStackWhileOver \/ ZStackWhileRace \/ ZStackInnerOver
    \/ ZStackAbort \/ ZStackSave \/ ZStackIdle \/ ZStackTimeout
    \/ ZStackAfter \/ ZStackPoll \/ ZStackEnd \/ AfterZStack

Next == Worker \/ CameraFrame \/ CameraStall \/ AbortConfirm

Spec == Init /\ [][Next]_vars

\* ----------------------------------------- the video framerate on its own
\* video_exposure_time (ms) and video_duration (s) of the region of a run that
\* takes one video: exposures on both sides of 25 ms, where the light sheet
\* ceiling of 40 sets in, one whose 1000 / exposure is halfway between two
\* integers (16), and long ones.
VideoExposures == {8, 16, 20, 24, 25, 26, 40, 500, 1000}
VideoDurations == {1, 4}

\* A run of one time point over one region that takes a video of the last
\* channel only.
InitVideoRates ==
    /\ \E ls \in BOOLEAN, e \in VideoExposures, d \in VideoDurations :
        /\ acquisition_settings =
              [lightsheet_mode_boolean |-> ls, time_points_boolean |-> FALSE,
               num_time_points |-> 0, time_points_interval |-> 1,
               z_scan_speed |-> 30, sample_dimension |-> 2,
               region_dimension |-> 1]
        /\ region_settings_list =
              [s \in 0..1 |-> [r \in 0..0 |->
                  IF s = 1 THEN EmptyRegion
                  ELSE [RegionSettings(0, 0,
                            [snap_boolean |-> FALSE, video_boolean |-> TRUE,
                             z_stack_boolean |-> FALSE,
                             snap_channel_list |-> {},
                             video_channel_list |-> LastChannel,
                             z_stack_channel_list |-> {},
                             z_start_position |-> 0, z_end_position |-> 20,
                             video_exposure_time |-> e])
                        EXCEPT !.video_duration = d]]]
    /\ abort_boolean = FALSE
    /\ pc = "start"
    /\ num_time_points = 0
    /\ sample_num = 0
    /\ region_num = 0
    /\ elapsed = NoTime
    /\ chan = 1
    /\ cur_frame = 0
    /\ timeout = 0
    /\ num_target = 0
    /\ z_start = 0
    /\ z_end = 0
    /\ lightsheet_readout_framerate \in
            IF acquisition_settings.lightsheet_mode_boolean THEN {1, 30} ELSE {30}
    /\ cam = IdleCamera
    /\ hw = [stage |-> <<0, 0, 0>>, scan |-> <<0, 0>>, camera |-> "default",
             galvo |-> "continuous", joystick |-> "locked", label |-> "",
             flagged_moves |-> 0]
    /\ data = NoData
    /\ opened = <<>>
    /\ open_sinks = {}
    /\ abortSeen = FALSE
    /\ lastOps = <<>>

\* The worker up to the start of the video's camera sequence.
NextVideoRates ==
    \/ RunStart \/ TimepointBegin \/ RegionBegin \/ SnapGate \/ VideoGate
    \/ VideoNext \/ VideoChannel

SpecVideoRates == InitVideoRates /\ [][NextVideoRates]_vars

\* ===================================================================== claims
Returned == {"snap_ret", "video_ret", "z_ret"}
Terminated == {"completed", "aborted", "crashed_snap", "crashed_run"}
\* Positions of run() itself: no sequencer call is in progress.
OutsideSequencer ==
    {"start", "timepoint", "region", "snap_gate", "video_gate", "z_gate", "wait",
     "aborting"} \cup Returned \cup (Terminated \ {"crashed_snap"})
DrainLoop == {"video_while", "z_while", "z_inner"}

\* The region whose datastore data is (the path names its cell).
DataRegion == region_settings_list[data.path[2]][data.path[3]]
IsData(modality) == data.path # <<>> /\ data.path[1] = modality

\* The drain loop of video (z stack) returns on the flag.
VideoDrainAbortStep == pc = "video_while" /\ pc' = "video_ret"
ZStackDrainAbortStep == pc = "z_inner" /\ pc' = "z_ret"

\* C1: every datastore that is created is closed exactly once, on every exit
\* path of its channel: it is never closed a second time, and once its channel
\* is over (the flag is polled, the next channel is looked for, or the
\* sequencer has returned) it has been closed once.
C1_ClosedExactlyOnce ==
    /\ data.closes <= 1
    /\ (/\ data.path # <<>>
        /\ pc \in Returned \cup {"snap_poll", "video_poll", "z_poll",
                                 "snap_loop", "video_loop", "z_loop"})
       => (data.closes = 1 /\ ~data.open)

\* C2: with the flag not set, the drain loops of video and z stack never count
\* more idle polls in a row than the first one over the limit of 500: the loop
\* is left once the limit is passed.
C2_IdleTicksBounded ==
    (pc \in DrainLoop /\ ~abort_boolean) => timeout <= TIMEOUT_LIMIT + 1

\* C3: the z position stamped on frame i of a z stack channel is
\* z_start_position + sign * step_size * i, sign = +1 if z_start_position <=
\* z_end_position else -1: the scan buffer is not part of it.
C3_StampedZ ==
    IsData("zStack") =>
        \A i \in 1..Len(data.frames) :
            LET r == DataRegion
                sign == IF r.z_start_position <= r.z_end_position THEN 1 ELSE -1
            IN  data.frames[i].z =
                    r.z_start_position + sign * r.step_size * data.frames[i].index

\* C4: for every enabled z stack channel the stage start and the scan range
\* given to the hardware are the region's z_start_position and z_end_position
\* extended by the scan buffer of 10 in the direction of travel, and the camera
\* sequence is started for round(|z_end - z_start| / step_size) frames.
C4_ScanRange ==
    "scan_setup" \in OpNames(lastOps) =>
        LET r == DataRegion
            forward == r.z_start_position <= r.z_end_position
            from == IF forward THEN r.z_start_position - 10
                    ELSE r.z_start_position + 10
            to == IF forward THEN r.z_end_position + 10
                  ELSE r.z_end_position - 10
        IN  /\ lastOps[FirstOp(lastOps, "scan_setup")].args = <<from, to>>
            /\ lastOps[FirstOp(lastOps, "move_stage")].args =
                    <<r.x_position, r.y_position, from>>
            /\ lastOps[FirstOp(lastOps, "start_sequence")].args =
                    <<RoundDiv(Abs(r.z_end_position - r.z_start_position),
                               r.step_size)>>

\* C5: once the worker has read the flag as set, the datastore in use is
\* closed, and from then on the worker creates no datastore, starts no camera
\* sequence, moves the stage to no region, enters no sequencer, region or time
\* point (its only positions are a sequencer's return, abort_acquisition and
\* the end), and it ends with the hardware restored by abort_acquisition.
C5_AfterAbortState ==
    abortSeen =>
        /\ ~data.open
        /\ open_sinks = {}
        /\ pc \in Returned \cup {"aborting", "aborted"}
        /\ pc = "aborted" =>
            /\ ~cam.running
            /\ cam.remaining = 0
            /\ hw.camera = "default"
            /\ hw.galvo = "reset"
            /\ hw.joystick = "reset"
            /\ hw.label = "Aborted"

C5_AfterAbortStep ==
    abortSeen =>
        /\ OpNames(lastOps') \cap
              {"open", "start_sequence", "move_stage", "scan_setup",
               "scan_start", "set_config", "put_image"} = {}
        /\ <<num_time_points', sample_num', region_num'>> =
              <<num_time_points, sample_num, region_num>>
        /\ pc' # pc => \/ pc \in Returned /\ pc' = "aborting"
                       \/ pc = "aborting" /\ pc' = "aborted"

C5_AbortIsFinal == [](C5_AfterAbortState) /\ [][C5_AfterAbortStep]_vars

C5_Witness ==
    /\ pc = "aborted"
    /\ abortSeen
    /\ IsData("video")
    /\ region_settings_list[1][0] # EmptyRegion
    /\ sample_num = 0

\* C6 as stated: the worker never ends reporting success with the flag set.
C6_NoSuccessWithFlagSet ==
    [][(pc # "completed" /\ pc' = "completed") => ~abort_boolean]_vars

\* What abort_acquisition is to do, in order.
RestorationPath ==
    <<"stop_sequence", "clear_buffer", "set_default_camera_properties",
      "reset_tasks", "wait_for_device", "reset_joystick", "label_aborted">>

\* C6 as amended: a worker that has read the flag as set at one of its polls
\* ends only by the full restoration path, in order, and never by reporting
\* success (a flag set after the worker's last poll is not read, and that run
\* reports success).
C6_ObservedAbortRestores ==
    /\ (abortSeen /\ pc \in Terminated) => pc = "aborted"
    /\ pc = "aborted" =>
        /\ abortSeen
        /\ [i \in 1..Len(lastOps) |-> lastOps[i].op] = RestorationPath
        /\ hw.label = "Aborted"
    /\ pc = "completed" =>
        /\ ~abortSeen
        /\ hw.label = "Your acquisition was successful!"

C6_Witness ==
    /\ pc = "aborted"
    /\ hw.stage = <<100, 100, 5>>
    /\ num_time_points = 0
    /\ IsData("zStack")
    /\ hw.label = "Aborted"

\* C7: when the drain loop of video reads the flag as set after k frames of
\* the channel were written (k under the target), the datastore holds those k
\* frames, numbered 0..k-1, and is closed; nothing is put in it afterwards;
\* run() goes to abort_acquisition without calling z_stack_acquisition, and at
\* its end the camera sequence is stopped and the buffer empty.
C7_VideoAbortStep ==
    /\ VideoDrainAbortStep =>
        /\ cur_frame < num_target
        /\ Len(data.frames) = cur_frame
        /\ \A i \in 1..Len(data.frames) : data.frames[i].index = i - 1
        /\ data'.frames = data.frames
        /\ ~data'.open
        /\ data'.closes = 1
        /\ open_sinks' = {}
    /\ (abortSeen /\ IsData("video")) =>
        /\ data' = data
        /\ pc' \in {"video_ret", "aborting", "aborted"}
        /\ pc' = "aborted" => (~cam'.running /\ cam'.remaining = 0)

C7_VideoAbortKeepsFrames == [][C7_VideoAbortStep]_vars

C7_Witness ==
    /\ pc = "aborted"
    /\ IsData("video")
    /\ data.closes = 1
    /\ Len(data.frames) = 1
    /\ DataRegion.z_stack_boolean
    /\ NumImages(acquisition_settings.lightsheet_mode_boolean,
                 DataRegion.video_exposure_time, DataRegion.video_duration) = 2

\* C8 as stated: when the drain loop has returned on the flag, the camera
\* sequence is not running (it was stopped before the datastore was closed).
C8_StoppedBeforeClose ==
    (pc \in {"video_ret", "z_ret"} /\ abortSeen /\ data.closes = 1) => ~cam.running

\* C8 as amended: on the flag the drain loop of video and of z stack makes one
\* call, data.close(), and returns; it does not stop the camera sequence, which
\* is left as it is.  The sequence is stopped by abort_acquisition, as its
\* first call, so it is not running when the worker ends.
C8_DrainAbortStep ==
    (VideoDrainAbortStep \/ ZStackDrainAbortStep) =>
        /\ [i \in 1..Len(lastOps') |-> lastOps'[i].op] = <<"close">>
        /\ cam' = cam
        /\ ~data'.open

C8_AbortedState ==
    pc = "aborted" =>
        /\ ~cam.running
        /\ cam.remaining = 0
        /\ lastOps # <<>>
        /\ lastOps[1].op = "stop_sequence"

C8_CloseThenStop == [](C8_AbortedState) /\ [][C8_DrainAbortStep]_vars

C8_Witness ==
    /\ pc \in {"video_ret", "z_ret"}
    /\ abortSeen
    /\ data.closes = 1
    /\ cam.running

\* The channels of channel_order_list that are in list, in order.
EnabledChannels(list) ==
    SelectSeq(channel_order_list, LAMBDA c : c \in list)

\* C9: a sequencer call that is over without the flag read as set has created
\* exactly one datastore per channel of its modality's channel list, in the
\* order of channel_order_list, and none for another channel.
C9_OpenedEqualsEnabled ==
    ~abortSeen =>
        /\ pc \in {"snap_ret", "crashed_snap"} =>
              opened = EnabledChannels(region_settings.snap_channel_list)
        /\ pc = "video_ret" =>
              opened = EnabledChannels(region_settings.video_channel_list)
        /\ pc = "z_ret" =>
              opened = EnabledChannels(region_settings.z_stack_channel_list)

\* C10: at most one datastore is open at any time, and none while control is
\* in run() outside a sequencer call.
C10_OneSinkOpen ==
    /\ Cardinality(open_sinks) <= 1
    /\ data.open <=> open_sinks # {}
    /\ data.open => open_sinks = {data.path}
    /\ pc \in OutsideSequencer => open_sinks = {}

C10_Witness ==
    /\ pc = "video_ret"
    /\ ~abortSeen
    /\ hw.label = "video failed, camera timeout"
    /\ Len(data.frames) = 1

\* The status message of lines 153-156.
TimeoutLabel == "video failed, camera timeout"
VideoTimedOut == hw.label = TimeoutLabel

\* C11: when a video channel has counted more than 500 idle polls and the flag
\* is not set, the sequence is stopped, the buffer cleared and the timeout
\* reported; the loop is then left, the channel's datastore is closed with the
\* frames it holds, and the channel loop goes on to the next enabled channel
\* (or returns to run() when there is none).  The worker neither ends nor
\* enters abort_acquisition because of it.
C11_TimeoutStep ==
    /\ (~VideoTimedOut /\ VideoTimedOut') =>
        /\ pc = "video_while" /\ pc' = "video_while"
        /\ timeout > TIMEOUT_LIMIT
        /\ [i \in 1..Len(lastOps') |-> lastOps'[i].op] =
              <<"stop_sequence", "clear_buffer">>
        /\ ~cam'.running /\ cam'.remaining = 0
        /\ data' = data
    /\ (VideoTimedOut /\ ~abort_boolean /\ pc' # pc) =>
        /\ pc = "video_while" => (pc' = "video_after" /\ data' = data)
        /\ pc = "video_after" =>
            /\ pc' = "video_poll"
            /\ data'.frames = data.frames
            /\ ~data'.open /\ data'.closes = 1
        /\ pc = "video_poll" =>
            /\ pc' = "video_loop"
            /\ chan' = chan + 1
            /\ data' = data
    /\ (VideoTimedOut /\ ~abortSeen /\ pc = "video_loop"
            /\ <<pc, chan>>' # <<pc, chan>>) =>
        IF chan > NumChannels THEN pc' = "video_ret"
        ELSE IF channel \in region_settings.video_channel_list
        THEN /\ pc' = "video_while"
             /\ opened' = Append(opened, channel)
             /\ data'.open /\ data'.frames = <<>>
             /\ "start_sequence" \in OpNames(lastOps')
        ELSE pc' = "video_loop" /\ chan' = chan + 1

C11_TimeoutState ==
    (VideoTimedOut /\ ~abortSeen) => pc \notin Terminated \cup {"aborting"}

C11_TimeoutIsLocal == [](C11_TimeoutState) /\ [][C11_TimeoutStep]_vars

C11_Witness ==
    /\ VideoTimedOut
    /\ pc = "video_poll"
    /\ ~abort_boolean
    /\ chan = 1
    /\ channel_order_list[2] \in region_settings.video_channel_list
    /\ Len(data.frames) = 1
    /\ data.closes = 1

\* C12: a video channel's framerate is round(1000 / video_exposure_time), and
\* in light sheet mode the lesser of that and 40 (which is then also the
\* readout framerate); the camera sequence is started for framerate *
\* video_duration frames.  Exposure 25 ms and duration 4 s give 40 and 160 in
\* both modes.
C12_VideoFrames ==
    (pc = "video_while" /\ "start_sequence" \in OpNames(lastOps)) =>
        LET ls == acquisition_settings.lightsheet_mode_boolean
            e == region_settings.video_exposure_time
            d == region_settings.video_duration
            rounded == RoundDiv(1000, e)
            framerate == IF ls /\ rounded > 40 THEN 40 ELSE rounded
            frames == lastOps[FirstOp(lastOps, "start_sequence")].args[1]
        IN  /\ frames = framerate * d
            /\ num_target = frames
            /\ cam.target = frames
            /\ ls => (lightsheet_readout_framerate = framerate
                      /\ lightsheet_readout_framerate <= 40)
            /\ (e = 25 /\ d = 4) => frames = 160

C12_Witness ==
    /\ pc = "video_while"
    /\ "start_sequence" \in OpNames(lastOps)
    /\ acquisition_settings.lightsheet_mode_boolean
    /\ region_settings.video_exposure_time = 20
    /\ region_settings.video_duration = 4
    /\ num_target = 160
    /\ lightsheet_readout_framerate = 40

\* C13: in light sheet mode every enabled snap channel of a region is given
\* the readout framerate min(round(1000 / r), 40), r being the readout value
\* configured when snap_acquisition is entered: the first channel computes it,
\* the later channels get the same value, it is at most 40, and no channel
\* fails to be configured.
C13_SnapChannelStep ==
    (/\ pc = "snap_loop"
     /\ pc' # "snap_loop"
     /\ chan <= NumChannels
     /\ acquisition_settings.lightsheet_mode_boolean) =>
        /\ pc' = "snap_poll"
        /\ lightsheet_readout_framerate' =
              IF opened = <<>>
              THEN Min(RoundDiv(1000, lightsheet_readout_framerate), 40)
              ELSE lightsheet_readout_framerate
        /\ lightsheet_readout_framerate' <= 40

C13_SnapReadoutFramerate == [][C13_SnapChannelStep]_vars

\* C14: with time points left, the next time point begins (unless the run is
\* aborted) only when time_points_interval has passed since the stage reached
\* the first region's position in the current time point; and every pass of
\* the wait polls the flag.
C14_WaitStep ==
    /\ (pc = "wait" /\ pc' = "timepoint") =>
          elapsed.at_first >= acquisition_settings.time_points_interval
    /\ (pc = "wait" /\ abort_boolean /\ elapsed' # elapsed) => pc' = "aborting"

C14_IntervalFromFirstRegion == [][C14_WaitStep]_vars

\* C15: in each time point run() goes through the cells in row-major order,
\* one cell at a time, starting at [0][0] and ending the time point only when
\* every cell is passed.  A cell in use has the stage moved to its position
\* and then snap_acquisition, video_acquisition and z_stack_acquisition
\* called in this order, each if and only if its boolean is set; an unused cell
\* has no stage move and no sequencer call.  (The steps after a set flag is
\* polled are those of abort_acquisition.)
Cell == <<sample_num, region_num>>
InGrid == sample_num < acquisition_settings.sample_dimension
RegionPosition ==
    <<region_settings.x_position, region_settings.y_position,
      region_settings.z_position>>

C15_RegionStep ==
    /\ Cell' # Cell =>
        \/ pc = "timepoint" /\ pc' = "region" /\ Cell' = <<0, 0>>
        \/ /\ Cell' = NextCell
           /\ pc' = "region"
           /\ pc \in {"region", "z_gate", "z_ret"}
           /\ pc = "region" => region_settings = EmptyRegion
           /\ pc = "z_gate" => ~region_settings.z_stack_boolean
    /\ (pc = "timepoint" /\ pc' = "region") => Cell' = <<0, 0>>
    /\ (pc = "region" /\ <<pc, Cell>>' # <<pc, Cell>>) =>
        IF ~InGrid THEN pc' \in {"timepoint", "wait", "crashed_run", "aborting"}
        ELSE IF region_settings = EmptyRegion
        THEN /\ pc' = "region"
             /\ Cell' = NextCell
             /\ hw' = hw
             /\ lastOps' = <<>>
        ELSE /\ pc' = "snap_gate"
             /\ Cell' = Cell
             /\ hw'.stage = RegionPosition
             /\ lastOps' = <<Op("move_stage", RegionPosition)>>
    /\ (pc = "snap_gate" /\ pc' # pc) =>
        pc' = IF region_settings.snap_boolean THEN "snap_loop" ELSE "video_gate"
    /\ (pc = "video_gate" /\ pc' # pc) =>
        pc' = IF region_settings.video_boolean THEN "video_loop" ELSE "z_gate"
    /\ (pc = "z_gate" /\ pc' # pc) =>
        pc' = IF region_settings.z_stack_boolean THEN "z_loop" ELSE "region"
    /\ (pc = "snap_ret" /\ pc' # pc /\ ~abort_boolean) => pc' = "video_gate"
    /\ (pc = "video_ret" /\ pc' # pc /\ ~abort_boolean) => pc' = "z_gate"
    /\ (pc = "z_ret" /\ pc' # pc /\ ~abort_boolean) => pc' = "region"
    /\ (pc' = "snap_gate" /\ pc' # pc) => pc = "region"
    /\ (pc' = "snap_loop" /\ pc' # pc) => pc \in {"snap_gate", "snap_poll"}
    /\ (pc' = "video_gate" /\ pc' # pc) => pc \in {"snap_gate", "snap_ret"}
    /\ (pc' = "video_loop" /\ pc' # pc) => pc \in {"video_gate", "video_poll"}
    /\ (pc' = "z_gate" /\ pc' # pc) => pc \in {"video_gate", "video_ret"}
    /\ (pc' = "z_loop" /\ pc' # pc) => pc \in {"z_gate", "z_poll"}
    /\ "move_stage" \in OpNames(lastOps') /\ lastOps' # lastOps =>
        pc \in {"region", "z_loop"}

C16_CompletedOrAborted ==
    /\ pc \in Terminated => pc \in {"completed", "aborted"}
    /\ pc = "completed" =>
        /\ hw.camera = "default"
        /\ hw.galvo = "continuous"
        /\ hw.label = "Your acquisition was successful!"
    /\ pc = "aborted" =>
        /\ hw.label = "Aborted"
        /\ [i \in 1..Len(lastOps) |-> lastOps[i].op] = RestorationPath

\* C17: in z_stack_acquisition a channel's drain loop is followed by the close
\* of its datastore and then by the waits for the xy stage, the z stage and the
\* camera, in this order; only then is the flag polled and the next channel
\* looked for, so that no stage move, scan setup or camera sequence start of a
\* later channel comes before them.
C17_ZStackStep ==
    /\ (pc' = "z_poll" /\ pc # "z_poll") =>
        /\ pc = "z_after"
        /\ lastOps' = <<Op("close", <<>>), Op("clear_buffer", <<>>),
                        Op("wait_for_device", <<"xy_stage_name">>),
                        Op("wait_for_device", <<"z_stage_name">>),
                        Op("wait_for_device", <<"cam_name">>)>>
        /\ ~data'.open
    /\ (pc' = "z_after" /\ pc # "z_after") => pc = "z_while"
    /\ (pc' = "z_loop" /\ pc # "z_loop") =>
        /\ pc \in {"z_gate", "z_poll"}
        /\ pc = "z_gate" => opened' = <<>>
        /\ pc = "z_poll" => opened' # <<>>
    /\ (pc = "z_loop" /\ opened # <<>>) =>
        /\ ~data.open
        /\ ~cam.running
        /\ cam.remaining = 0
    /\ (lastOps' # lastOps /\ IsData("zStack")' /\
        OpNames(lastOps') \cap {"move_stage", "scan_setup", "start_sequence"} # {})
        => (pc = "z_loop" \/ pc = "region")

C17_WaitsBeforeNextChannel == [][C17_ZStackStep]_vars

C17_Witness ==
    /\ pc = "z_while"
    /\ IsData("zStack")
    /\ Len(opened) = 2
    /\ "scan_setup" \in OpNames(lastOps)
    /\ ~abort_boolean

\* C18: the frames of a video datastore carry the time indices 0, 1, ... in
\* the order they were put, and the position of the datastore's channel in
\* channel_order_list; a put sets the idle count to zero and advances the
\* frame index by one, and the idle count goes up, by one, only in a pass of
\* the drain loop that finds the buffer empty and puts nothing.
C18_FramesIndexed ==
    IsData("video") =>
        /\ \A i \in 1..Len(data.frames) :
            /\ data.frames[i].axis = "t"
            /\ data.frames[i].index = i - 1
            /\ data.frames[i].c = IndexOf(channel_order_list, data.path[4])
        /\ pc = "video_while" => cur_frame = Len(data.frames)

C18_DrainStep ==
    pc = "video_while" =>
        /\ data'.frames # data.frames =>
            /\ data'.frames = Append(data.frames, data'.frames[Len(data'.frames)])
            /\ data'.frames[Len(data'.frames)].index = cur_frame
            /\ cam.remaining > 0
            /\ cam'.remaining = cam.remaining - 1
            /\ cur_frame' = cur_frame + 1
            /\ timeout' = 0
        /\ timeout' > timeout =>
            /\ timeout' = timeout + 1
            /\ cam.remaining = 0
            /\ data' = data
            /\ cur_frame' = cur_frame

C18_VideoFrameIndices == [](C18_FramesIndexed) /\ [][C18_DrainStep]_vars

C18_Witness ==
    /\ pc = "video_while"
    /\ IsData("video")
    /\ data.path[4] = channel_order_list[2]
    /\ Len(data.frames) = 2
    /\ timeout = 0
    /\ lastOps # <<>>
    /\ lastOps[1].op = "pop"

\* C19: in snap_acquisition a channel's datastore is created, given one image
\* and closed, in this order, and holds exactly that one image; the flag is
\* polled after each channel, and if it is set the sequencer returns without
\* creating a datastore or taking an image for a later channel.
C19_SnapDatastore ==
    IsData("snap") =>
        /\ Len(data.frames) = 1
        /\ data.frames[1].c = IndexOf(channel_order_list, data.path[4])
        /\ ~data.open
        /\ data.closes >= 1
        /\ pc = "snap_ret" /\ abortSeen =>
              opened = EnabledChannels(
                  {c \in region_settings.snap_channel_list : c <= data.path[4]})

C19_SnapStep ==
    /\ (pc = "snap_loop" /\ pc' = "snap_poll") =>
        /\ [i \in 1..Len(lastOps') |-> lastOps'[i].op] =
              <<"set_config", "open", "put_image", "close", "clear_buffer">>
        /\ opened' = Append(opened, channel)
    /\ (pc = "snap_loop" /\ opened' # opened) => pc' = "snap_poll"
    /\ (pc = "snap_poll" /\ pc' # pc) =>
        IF abort_boolean
        THEN /\ pc' = "snap_ret"
             /\ abortSeen'
             /\ opened' = opened
             /\ data'.frames = data.frames
             /\ OpNames(lastOps') \cap {"open", "put_image"} = {}
        ELSE /\ pc' = "snap_loop"
             /\ chan' = chan + 1
             /\ data' = data

C19_SnapOneFrame == [](C19_SnapDatastore) /\ [][C19_SnapStep]_vars

C19_Witness ==
    /\ pc = "snap_ret"
    /\ abortSeen
    /\ IsData("snap")
    /\ region_settings.snap_channel_list = Channels
    /\ opened = <<channel_order_list[1]>>
    /\ Len(data.frames) = 1

\* C20 as stated: after the flag is set, the worker moves the stage to a
\* region's position at most once more.
C20_AtMostOneMove == hw.flagged_moves <= 1

\* The cells in use whose region has none of snap, video and z stack enabled.
IdleRegions ==
    {c \in (DOMAIN region_settings_list) \X {0} :
        /\ region_settings_list[c[1]][c[2]] # EmptyRegion
        /\ ~region_settings_list[c[1]][c[2]].snap_boolean
        /\ ~region_settings_list[c[1]][c[2]].video_boolean
        /\ ~region_settings_list[c[1]][c[2]].z_stack_boolean}

\* C20 as amended: the flag is polled after every sequencer call, in every
\* pass through the body of the drain loop of video and of the inner drain
\* loop of z stack, and at the end of the region loops; the visit of a region with no modality
\* enabled calls no sequencer and polls nothing.  So with the flag set the
\* worker moves the stage to a region's position at most once, and once more
\* for each region with no modality enabled.
C20_PollStep ==
    /\ (abort_boolean /\ pc \in Returned /\ pc' # pc) =>
          (pc' = "aborting" /\ abortSeen')
    /\ (abort_boolean /\ pc \in {"video_while", "z_inner"}) =>
          \/ pc' \in Returned /\ abortSeen'
          \/ pc' \in {"video_after", "z_while"} /\ data' = data
          \/ pc' = pc /\ UNCHANGED <<lastOps, data, cur_frame, timeout, hw>>
    /\ (abort_boolean /\ pc = "region" /\ ~InGrid /\ pc' # pc) =>
          (pc' = "aborting" /\ abortSeen')
    /\ (pc = "snap_gate" /\ Cell \in IdleRegions /\ pc' # pc) => pc' = "video_gate"
    /\ (pc = "video_gate" /\ Cell \in IdleRegions /\ pc' # pc) => pc' = "z_gate"
    /\ (pc = "z_gate" /\ Cell \in IdleRegions /\ pc' # pc) =>
          (pc' = "region" /\ abortSeen' = abortSeen)
    /\ hw'.flagged_moves > hw.flagged_moves =>
          \/ hw.flagged_moves = 0
          \/ hw.stage \in {<<100 * (c[1] + 1), 100 * (c[2] + 1), 5>> :
                              c \in IdleRegions}

C20_MovesBounded == hw.flagged_moves <= 1 + Cardinality(IdleRegions)

C20_PolledAfterSequencers == [](C20_MovesBounded) /\ [][C20_PollStep]_vars

C20_Witness ==
    /\ hw.flagged_moves = 2
    /\ pc = "aborted"
    /\ Cardinality(IdleRegions) = 1
    /\ hw.stage = <<200, 100, 5>>
    /\ IsData("snap")

\* C21: the flag is monotonic: once abort_confirm_button_clicked() has set it,
\* no step of the worker makes it False again, a flag set before run()'s first
\* statement included.
C21_FlagStep == abort_boolean => abort_boolean'

C21_FlagMonotonic == [][C21_FlagStep]_vars

\* num_frames of the region of data, from its configured z range (line 199).
ConfiguredFrames ==
    RoundDiv(Abs(DataRegion.z_end_position - DataRegion.z_start_position),
             DataRegion.step_size)

\* C22: a z stack datastore never holds more than num_frames =
\* round(|z_end - z_start| / step_size) frames, and its frames carry the z
\* indices 0, 1, ... in order.  Once the drain loop is entered, it is left
\* only on the flag or with exactly num_frames frames written, and the close
\* that follows keeps them.
C22_ZStackFrames ==
    IsData("zStack") =>
        /\ Len(data.frames) <= ConfiguredFrames
        /\ \A i \in 1..Len(data.frames) :
            /\ data.frames[i].axis = "z"
            /\ data.frames[i].index = i - 1
        /\ pc \in {"z_while", "z_inner", "z_after", "z_poll"} =>
            /\ num_target = ConfiguredFrames
            /\ cur_frame = Len(data.frames)
        /\ (pc = "z_while" /\ "start_sequence" \notin OpNames(lastOps)) =>
              Len(data.frames) = ConfiguredFrames
        /\ (pc \in {"z_after", "z_poll"} /\ cur_frame # 0) =>
              Len(data.frames) = ConfiguredFrames

C22_ZStackStep ==
    /\ (pc = "z_inner" /\ pc' # pc) =>
        \/ pc' = "z_ret" /\ abort_boolean
        \/ /\ pc' = "z_while"
           /\ Len(data.frames) = ConfiguredFrames
           /\ data' = data
    /\ (pc = "z_while" /\ pc' = "z_after") =>
        /\ data' = data
        /\ Len(data.frames) \in {0, ConfiguredFrames}
        /\ Len(data.frames) # ConfiguredFrames =>
              "start_sequence" \in OpNames(lastOps)
    /\ (pc = "z_after" /\ pc' # pc) =>
        /\ pc' = "z_poll"
        /\ data'.frames = data.frames
        /\ ~data'.open

C22_ZStackFrameCount == [](C22_ZStackFrames) /\ [][C22_ZStackStep]_vars

C22_Witness ==
    /\ pc = "z_poll"
    /\ ~abort_boolean
    /\ IsData("zStack")
    /\ DataRegion.z_start_position = 45
    /\ Len(data.frames) = 2
    /\ data.frames[2].index = 1
    /\ data.closes = 1

\* C23: run() reads the position of no unused cell: in a grid whose cell
\* [0][0] is unused and another cell is in use, the move back to the start
\* position at the end of a time point goes to a region in use and the worker
\* does not end by an error there.
C23_MoveBackTargetsRegion ==
    (\E s \in DOMAIN region_settings_list :
        region_settings_list[s][0] # EmptyRegion) =>
        /\ pc # "crashed_run"
        /\ hw.label = "Moving back to start position..." =>
            /\ region_settings_list[0][0] # EmptyRegion
            /\ hw.stage = <<region_settings_list[0][0].x_position,
                            region_settings_list[0][0].y_position,
                            region_settings_list[0][0].z_position>>

====
